---------------------------- MODULE Spec2Model ----------------------------
(***************************************************************************)
(* Model of backend/main.py: a FastAPI service that runs Google's OAuth    *)
(* authorization-code flow, keeps the resulting access token in one        *)
(* process-wide variable and uses it to read today's step count from the   *)
(* Google Fit aggregate endpoint.                                          *)
(*                                                                         *)
(* The handlers are coroutines on one event loop: the code between two     *)
(* awaits runs atomically, and the only awaits are the two upstream POSTs. *)
(* Each handler is therefore one action (no await) or two (the part up to  *)
(* the await, and the part that resumes with the upstream reply).          *)
(* Requests awaiting an upstream reply are kept in arrival order; replies  *)
(* may arrive in any order.                                                *)
(***************************************************************************)
EXTENDS Integers, Sequences, FiniteSets, TLC

VARIABLES
    env,               \* os.getenv values read at import time
    user_access_token, \* the module global
    pendingExchanges,  \* callbacks awaiting the token endpoint, in arrival order
    pendingFetches,    \* get-steps requests awaiting Google Fit, in arrival order
    lastCallback,      \* the callback that completed last: its code and upstream reply
    lastEvent          \* the handler step taken last: what it sent, received, answered

vars == <<env, user_access_token, pendingExchanges, pendingFetches,
          lastCallback, lastEvent>>

(***************************************************************************)
(* Bounds of the model.                                                    *)
(***************************************************************************)
MaxPendingCallbacks == 2
MaxPendingFetches == 1

(***************************************************************************)
(* Python values.  A value is a record tagged with its type, so that the   *)
(* truthiness tests and dict.get of the source can be computed as Python   *)
(* computes them.                                                          *)
(***************************************************************************)
None == [t |-> "None"]
Str(s) == [t |-> "str", v |-> s]
PyInt(n) == [t |-> "int", v |-> n]
List(s) == [t |-> "list", v |-> s]
Tuple(s) == [t |-> "tuple", v |-> s]
Dict(f) == [t |-> "dict", v |-> f]
EmptyDict == Dict(<<>>)

\* bool(x)
Truthy(x) ==
    CASE x.t = "None" -> FALSE
      [] x.t = "str" -> x.v # ""
      [] x.t = "int" -> x.v # 0
      [] x.t = "list" -> Len(x.v) > 0
      [] x.t = "tuple" -> Len(x.v) > 0
      [] x.t = "dict" -> DOMAIN x.v # {}

\* d.get(k, default)
DictGet(d, k, default) == IF k \in DOMAIN d.v THEN d.v[k] ELSE default

\* f"{x}"
Format(x) ==
    CASE x.t = "None" -> "None"
      [] x.t = "str" -> x.v

(***************************************************************************)
(* Configuration.                                                          *)
(***************************************************************************)
REDIRECT_URI == "http://localhost:8000/auth/google/callback"
FRONTEND_URL == "http://localhost:5173"
token_url == "https://oauth2.googleapis.com/token"
api_url == "https://www.googleapis.com/fitness/v1/users/me/dataset:aggregate"
durationMillis == 86400000

Environments ==
    { [GOOGLE_CLIENT_ID |-> None, GOOGLE_CLIENT_SECRET |-> None],
      [GOOGLE_CLIENT_ID |-> Str("client-id"),
       GOOGLE_CLIENT_SECRET |-> Str("client-secret")] }

(***************************************************************************)
(* HTTP responses of the service.                                          *)
(***************************************************************************)
NoResponse == [status |-> 0, location |-> "", body |-> None]

\* fastapi.responses.RedirectResponse(url=...): status 307 unless told otherwise
RedirectResponse(url) == [status |-> 307, location |-> url, body |-> None]

\* What FastAPI answers for a value returned by a route that declares no
\* response class: status 200 and the JSON encoding of the value.  A tuple
\* is encoded as a JSON array; its second element is not a status code.
SerializeReturn(ret) ==
    [status |-> 200, location |-> "",
     body |-> IF ret.t = "tuple" THEN List(ret.v) ELSE ret]

\* An exception no handler catches: Starlette answers 500.
InternalServerError ==
    [status |-> 500, location |-> "", body |-> Str("Internal Server Error")]

(***************************************************************************)
(* Upstream requests and replies.                                          *)
(***************************************************************************)
NoRequest == [url |-> ""]
NotJSON == [t |-> "invalid"]
NoReply == [status |-> 0, text |-> "", json |-> NotJSON]
Reply(status, text, json) == [status |-> status, text |-> text, json |-> json]

\* Variant: only server errors raise.
RaisesOnServerErrorOnly(status) == status >= 500

\* httpx Response.raise_for_status(): raises HTTPStatusError unless 2xx
RaisesHTTPStatusError(status) == ~(status >= 200 /\ status <= 299)

NoEvent ==
    [op |-> "boot", code |-> None, sent |-> NoRequest, reply |-> NoReply,
     response |-> NoResponse, printed |-> ""]

Event(op, code, sent, reply, response, printed) ==
    [op |-> op, code |-> code, sent |-> sent, reply |-> reply,
     response |-> response, printed |-> printed]

RemoveAt(s, i) == SubSeq(s, 1, i - 1) \o SubSeq(s, i + 1, Len(s))

(***************************************************************************)
(* Inputs.                                                                 *)
(***************************************************************************)
\* request.query_params.get('code')
Codes == {None, Str(""), Str("4/0AfJohX")}

\* access tokens the Authorization Server may put in its answer
Tokens == {"", "abc123", "ya29.tok2"}

ASReplies ==
    { Reply(200, "{..}", Dict([access_token |-> Str(tk)])) : tk \in Tokens }
    \cup { Reply(200, "{}", EmptyDict),
           Reply(200, "<html>", NotJSON),
           Reply(400, "invalid_grant", NotJSON),
           Reply(500, "internal_failure", NotJSON) }

\* datetime.now(timezone.utc), in milliseconds
Clock == {3 * durationMillis, 3 * durationMillis + 45296789}

IntVals == {0, 4321}

\* Objects with an optional list-valued key: the key absent, an empty
\* list, or a list whose first element is one of objs.
Nest(key, objs) ==
    {EmptyDict, Dict(key :> List(<<>>))}
    \cup { Dict(key :> List(<<o>>)) : o \in objs }

ValueObjs == {EmptyDict} \cup { Dict([intVal |-> PyInt(n)]) : n \in IntVals }
PointObjs == Nest("value", ValueObjs)
DatasetObjs == Nest("point", PointObjs)
BucketObjs == Nest("dataset", DatasetObjs)
\* A populated response whose lists hold a second element after the first.
TwoElementData(n) ==
    Dict([bucket |-> List(<<
        Dict([dataset |-> List(<<
            Dict([point |-> List(<<
                Dict([value |-> List(<<Dict([intVal |-> PyInt(n)]),
                                       Dict([intVal |-> PyInt(7)])>>)]),
                EmptyDict>>)]),
            EmptyDict>>)]),
        EmptyDict>>)])

FitData ==
    Nest("bucket", BucketObjs)
    \cup {Dict([bucket |-> None])}
    \cup { TwoElementData(n) : n \in IntVals }

FitReplies ==
    { Reply(200, "{..}", d) : d \in FitData }
    \cup { Reply(200, "<html>", NotJSON),
           Reply(401, "UNAUTHENTICATED", NotJSON),
           Reply(500, "backend error", NotJSON) }

(***************************************************************************)
(* GET /                                                                   *)
(***************************************************************************)
read_root ==
    /\ lastEvent' = Event("read_root", None, NoRequest, NoReply,
           SerializeReturn(Dict([message |-> Str("Fitness API Backend is running.")])),
           "")
    /\ UNCHANGED <<env, user_access_token, pendingExchanges, pendingFetches,
                   lastCallback>>

(***************************************************************************)
(* GET /login                                                              *)
(***************************************************************************)
auth_url(client_id) ==
    "https://accounts.google.com/o/oauth2/v2/auth?"
    \o "scope=https://www.googleapis.com/auth/fitness.activity.read&"
    \o "include_granted_scopes=true&"
    \o "response_type=code&"
    \o "redirect_uri=" \o REDIRECT_URI \o "&"
    \o "client_id=" \o Format(client_id)

login_google ==
    /\ lastEvent' = Event("login_google", None, NoRequest, NoReply,
           RedirectResponse(auth_url(env.GOOGLE_CLIENT_ID)), "")
    /\ UNCHANGED <<env, user_access_token, pendingExchanges, pendingFetches,
                   lastCallback>>

(***************************************************************************)
(* GET /auth/google/callback                                               *)
(***************************************************************************)
\* Variant: `if code is None:`
MissingCodeIsNone(code) == code = None

\* if not code:
MissingCode(code) == ~Truthy(code)

token_data(code) ==
    [code |-> code,
     client_id |-> env.GOOGLE_CLIENT_ID,
     client_secret |-> env.GOOGLE_CLIENT_SECRET,
     redirect_uri |-> REDIRECT_URI,
     grant_type |-> "authorization_code"]

\* The handler up to `await client.post(token_url, data=token_data)`.
auth_google_callback(code) ==
    IF MissingCode(code)
    THEN /\ lastEvent' = Event("callback", code, NoRequest, NoReply,
                RedirectResponse(FRONTEND_URL \o "/login-failed"), "")
         /\ lastCallback' = [code |-> code, reply |-> NoReply, overtakenBy |-> None]
         /\ UNCHANGED <<env, user_access_token, pendingExchanges, pendingFetches>>
    ELSE /\ Len(pendingExchanges) < MaxPendingCallbacks
         /\ LET req == [url |-> token_url, data |-> token_data(code)] IN
              /\ pendingExchanges' =
                     Append(pendingExchanges, [req |-> req, overtakenBy |-> None])
              /\ lastEvent' = Event("callback_await", code, req, NoReply,
                     NoResponse, "")
         /\ UNCHANGED <<env, user_access_token, pendingFetches, lastCallback>>

\* Variant: a token already held is kept.
StoredTokenKeepFirst(old, token_json) ==
    IF Truthy(old) THEN old ELSE DictGet(token_json, "access_token", None)

\* user_access_token = token_json.get("access_token")
StoredToken(old, token_json) == DictGet(token_json, "access_token", None)

\* The handler from the reply of the token endpoint to its return.
auth_google_callback_resume(i, reply) ==
    /\ i \in 1..Len(pendingExchanges)
    /\ LET p == pendingExchanges[i]
           code == p.req.data.code
           rest == RemoveAt(pendingExchanges, i)
       IN
         /\ lastCallback' =
                [code |-> code, reply |-> reply, overtakenBy |-> p.overtakenBy]
         /\ IF RaisesHTTPStatusError(reply.status)
            THEN \* except httpx.HTTPStatusError
                 /\ user_access_token' = user_access_token
                 /\ pendingExchanges' = rest
                 /\ lastEvent' = Event("callback", code, NoRequest, reply,
                        RedirectResponse(FRONTEND_URL \o "/login-failed"),
                        "Error exchanging code for token: " \o reply.text)
            ELSE IF reply.json = NotJSON
            THEN \* response.json() raises; nothing catches it
                 /\ user_access_token' = user_access_token
                 /\ pendingExchanges' = rest
                 /\ lastEvent' = Event("callback", code, NoRequest, reply,
                        InternalServerError, "")
            ELSE /\ user_access_token' = StoredToken(user_access_token, reply.json)
                 /\ pendingExchanges' =
                        [j \in 1..Len(rest) |->
                           IF j < i /\ user_access_token'.t = "str"
                           THEN [rest[j] EXCEPT !.overtakenBy = user_access_token']
                           ELSE rest[j]]
                 /\ lastEvent' = Event("callback", code, NoRequest, reply,
                        RedirectResponse(FRONTEND_URL \o "/dashboard"), "")
    /\ UNCHANGED <<env, pendingFetches>>

(***************************************************************************)
(* GET /get-steps                                                          *)
(***************************************************************************)
\* Variant: the check is left out.
NotAuthenticatedNever(tok) == FALSE

\* Variant: `if user_access_token is None:`
NotAuthenticatedIsNone(tok) == tok = None

\* if not user_access_token:
NotAuthenticated(tok) == ~Truthy(tok)

\* Variant: the string is not an f-string.
BearerHeaderPlain(tok) == "Bearer {user_access_token}"

\* headers = {"Authorization": f"Bearer {user_access_token}"}
BearerHeader(tok) == "Bearer " \o Format(tok)

request_body(now) ==
    [aggregateBy |-> <<[dataTypeName |-> "com.google.step_count.delta",
         dataSourceId |-> "derived:com.google.step_count.delta:com.google.android.gms:estimated_steps"]>>,
     bucketByTime |-> [durationMillis |-> durationMillis],
     startTimeMillis |-> now - (now % durationMillis),
     endTimeMillis |-> now]

\* The handler up to `await client.post(api_url, headers=headers, json=request_body)`.
get_steps(now) ==
    IF NotAuthenticated(user_access_token)
    THEN /\ lastEvent' = Event("get_steps", None, NoRequest, NoReply,
                SerializeReturn(Tuple(<<Dict([error |-> Str("Not authenticated")]),
                                        PyInt(401)>>)), "")
         /\ UNCHANGED <<env, user_access_token, pendingExchanges, pendingFetches,
                        lastCallback>>
    ELSE /\ Len(pendingFetches) < MaxPendingFetches
         /\ LET req == [url |-> api_url,
                        headers |-> [Authorization |-> BearerHeader(user_access_token)],
                        json |-> request_body(now)] IN
              /\ pendingFetches' = Append(pendingFetches, req)
              /\ lastEvent' = Event("get_steps_await", None, req, NoReply,
                     NoResponse, "")
         /\ UNCHANGED <<env, user_access_token, pendingExchanges, lastCallback>>

\* Variant: the traversal reads the last element of each list, not the first.
ExtractStepsLast(data) ==
    IF Truthy(DictGet(data, "bucket", None))
    THEN LET bucket == data.v["bucket"].v[Len(data.v["bucket"].v)] IN
      IF Truthy(DictGet(bucket, "dataset", None))
      THEN LET dataset == bucket.v["dataset"].v[Len(bucket.v["dataset"].v)] IN
        IF Truthy(DictGet(dataset, "point", None))
        THEN LET point == dataset.v["point"].v[Len(dataset.v["point"].v)] IN
          IF Truthy(DictGet(point, "value", None))
          THEN LET value == point.v["value"].v[Len(point.v["value"].v)] IN
                 DictGet(value, "intVal", PyInt(0))
          ELSE PyInt(0)
        ELSE PyInt(0)
      ELSE PyInt(0)
    ELSE PyInt(0)

\* The traversal of the aggregate response.
ExtractSteps(data) ==
    IF Truthy(DictGet(data, "bucket", None))
    THEN LET bucket == data.v["bucket"].v[1] IN
      IF Truthy(DictGet(bucket, "dataset", None))
      THEN LET dataset == bucket.v["dataset"].v[1] IN
        IF Truthy(DictGet(dataset, "point", None))
        THEN LET point == dataset.v["point"].v[1] IN
          IF Truthy(DictGet(point, "value", None))
          THEN LET value == point.v["value"].v[1] IN
                 DictGet(value, "intVal", PyInt(0))
          ELSE PyInt(0)
        ELSE PyInt(0)
      ELSE PyInt(0)
    ELSE PyInt(0)

\* The handler from the reply of Google Fit to its return.
get_steps_resume(i, reply) ==
    /\ i \in 1..Len(pendingFetches)
    /\ pendingFetches' = RemoveAt(pendingFetches, i)
    /\ lastEvent' =
         IF RaisesHTTPStatusError(reply.status)
         THEN Event("get_steps", None, NoRequest, reply,
                  SerializeReturn(Tuple(<<Dict([error |->
                      Str("Failed to fetch steps from Google Fit.")]), PyInt(500)>>)),
                  "Error fetching steps: " \o reply.text)
         ELSE IF reply.json = NotJSON
         THEN Event("get_steps", None, NoRequest, reply, InternalServerError, "")
         ELSE Event("get_steps", None, NoRequest, reply,
                  SerializeReturn(Dict([steps |-> ExtractSteps(reply.json)])), "")
    /\ UNCHANGED <<env, user_access_token, pendingExchanges, lastCallback>>

(***************************************************************************)
(* The service.                                                            *)
(***************************************************************************)
Init ==
    /\ env \in Environments
    /\ user_access_token = None
    /\ pendingExchanges = <<>>
    /\ pendingFetches = <<>>
    /\ lastCallback = [code |-> None, reply |-> NoReply, overtakenBy |-> None]
    /\ lastEvent = NoEvent

Next ==
    \/ read_root
    \/ login_google
    \/ \E code \in Codes : auth_google_callback(code)
    \/ \E i \in 1..MaxPendingCallbacks, reply \in ASReplies :
           auth_google_callback_resume(i, reply)
    \/ \E now \in Clock : get_steps(now)
    \/ \E i \in 1..MaxPendingFetches, reply \in FitReplies :
           get_steps_resume(i, reply)

Spec == Init /\ [][Next]_vars

(***************************************************************************)
(* Vocabulary of the properties.                                           *)
(***************************************************************************)
\* A usable token is held: the slot holds a non-empty string.
Held(tok) == tok.t = "str" /\ tok.v # ""

Is2xx(status) == status \in 200..299

\* The reply is a 2xx answer whose JSON object has an access_token string.
Accepted(reply) ==
    /\ Is2xx(reply.status)
    /\ reply.json.t = "dict"
    /\ "access_token" \in DOMAIN reply.json.v
    /\ reply.json.v["access_token"].t = "str"

IssuedToken(reply) == reply.json.v["access_token"]

IsRedirectTo(response, path) ==
    /\ response.status \in 300..399
    /\ response.location = "http://localhost:5173" \o path

\* The body is the error object, or an array that contains it.
CarriesError(body, msg) ==
    \/ body = Dict([error |-> Str(msg)])
    \/ /\ body.t = "list"
       /\ \E k \in 1..Len(body.v) : body.v[k] = Dict([error |-> Str(msg)])

\* The step taken last is the first part of a /get-steps request.
GetStepsStarted ==
    \/ lastEvent.op = "get_steps_await"
    \/ lastEvent.op = "get_steps" /\ lastEvent.reply = NoReply

\* The step taken last is a /get-steps request that failed.
GetStepsFailed ==
    /\ lastEvent.op = "get_steps"
    /\ lastEvent.reply = NoReply \/ ~Is2xx(lastEvent.reply.status)

HasFirst(d, k) ==
    /\ d.t = "dict"
    /\ k \in DOMAIN d.v
    /\ d.v[k].t = "list"
    /\ Len(d.v[k].v) >= 1

First(d, k) == d.v[k].v[1]

\* bucket[0].dataset[0].point[0].value[0].intVal when every level is
\* there, and 0 otherwise.
StepsOnPath(d) ==
    IF /\ HasFirst(d, "bucket")
       /\ HasFirst(First(d, "bucket"), "dataset")
       /\ HasFirst(First(First(d, "bucket"), "dataset"), "point")
       /\ HasFirst(First(First(First(d, "bucket"), "dataset"), "point"), "value")
       /\ "intVal" \in DOMAIN
            First(First(First(First(d, "bucket"), "dataset"), "point"), "value").v
    THEN First(First(First(First(d, "bucket"), "dataset"), "point"), "value").v["intVal"]
    ELSE PyInt(0)

(***************************************************************************)
(* C1.  As claimed: after a callback whose exchange was answered 2xx with  *)
(* an access token t, for every string t, a /get-steps request that starts *)
(* before a later callback completes sends Authorization: Bearer t.        *)
(***************************************************************************)
C1_AsClaimed ==
    (GetStepsStarted /\ Accepted(lastCallback.reply))
        => /\ lastEvent.op = "get_steps_await"
           /\ lastEvent.sent.headers.Authorization =
                  "Bearer " \o IssuedToken(lastCallback.reply).v

(***************************************************************************)
(* C1, amended.  The same for every non-empty token t: a /get-steps that   *)
(* starts while the callback completed last is one whose exchange was      *)
(* answered 2xx with a non-empty access token t sends Bearer t.            *)
(***************************************************************************)
C1_BearerOfLastLogin ==
    (/\ GetStepsStarted
     /\ Accepted(lastCallback.reply)
     /\ IssuedToken(lastCallback.reply).v # "")
        => /\ lastEvent.op = "get_steps_await"
           /\ lastEvent.sent.headers.Authorization =
                  "Bearer " \o IssuedToken(lastCallback.reply).v

C1_Witness ==
    /\ lastEvent.op = "get_steps_await"
    /\ Accepted(lastCallback.reply)
    /\ lastEvent.sent.headers.Authorization = "Bearer abc123"
    /\ IssuedToken(lastCallback.reply) = Str("abc123")

(***************************************************************************)
(* C2.  A /get-steps request made while no token is held answers with the  *)
(* "Not authenticated" error payload and sends nothing to Google Fit.      *)
(***************************************************************************)
C2_UnauthenticatedNoFetch ==
    (GetStepsStarted /\ ~Held(user_access_token))
        => /\ lastEvent.op = "get_steps"
           /\ lastEvent.sent = NoRequest
           /\ CarriesError(lastEvent.response.body, "Not authenticated")

C2_Witness ==
    /\ lastEvent.op = "get_steps"
    /\ lastEvent.reply = NoReply
    /\ user_access_token = None
    /\ lastCallback.reply.status = 400
    /\ CarriesError(lastEvent.response.body, "Not authenticated")

(***************************************************************************)
(* C3.  A callback without a code (absent or empty) is answered with a     *)
(* redirect to <frontend>/login-failed, sends no request to the token      *)
(* endpoint (every request sent there carries a non-empty code) and leaves *)
(* the stored token as it was.                                             *)
(***************************************************************************)
C3_MissingCode ==
    /\ [](/\ \A i \in 1..Len(pendingExchanges) :
                Held(pendingExchanges[i].req.data.code)
          /\ lastEvent.op = "callback_await" => Held(lastEvent.code)
          /\ (lastEvent.op = "callback" /\ ~Held(lastEvent.code))
                => /\ IsRedirectTo(lastEvent.response, "/login-failed")
                   /\ lastEvent.sent = NoRequest
                   /\ lastEvent.reply = NoReply)
    /\ [][(lastEvent'.op = "callback" /\ ~Held(lastEvent'.code))
            => /\ user_access_token' = user_access_token
               /\ pendingExchanges' = pendingExchanges]_vars

C3_Witness ==
    /\ lastEvent.op = "callback"
    /\ lastEvent.code = Str("")
    /\ IsRedirectTo(lastEvent.response, "/login-failed")
    /\ Held(user_access_token)

C5_DashboardOnlyOnSuccess ==
    (lastEvent.op = "callback" /\ IsRedirectTo(lastEvent.response, "/dashboard"))
        => /\ Is2xx(lastEvent.reply.status)
           /\ lastEvent.reply.json.t = "dict"
           /\ "access_token" \in DOMAIN lastEvent.reply.json.v
           /\ user_access_token = lastEvent.reply.json.v["access_token"]
           /\ user_access_token # None

(***************************************************************************)
(* C6.  As claimed: once a token is held (the slot is not None) a token    *)
(* stays held, and a held token is replaced only by the token of a new     *)
(* successful login.                                                       *)
(***************************************************************************)
C6_TokenOnlyMovesForward ==
    [][user_access_token # None
         => /\ user_access_token' # None
            /\ user_access_token' # user_access_token
                 => /\ lastEvent'.op = "callback"
                    /\ Accepted(lastEvent'.reply)
                    /\ user_access_token' = IssuedToken(lastEvent'.reply)]_vars

(***************************************************************************)
(* C7.  When Google Fit answers 2xx with a JSON object, /get-steps answers *)
(* {steps: n}: n is bucket[0].dataset[0].point[0].value[0].intVal when     *)
(* every level is present, and 0 when a level is missing or an empty list. *)
(***************************************************************************)
C7_StepsFromNestedPath ==
    (/\ lastEvent.op = "get_steps"
     /\ Is2xx(lastEvent.reply.status)
     /\ lastEvent.reply.json.t = "dict")
        => /\ lastEvent.response.status = 200
           /\ lastEvent.response.body =
                  Dict([steps |-> StepsOnPath(lastEvent.reply.json)])

C7_Witness ==
    /\ lastEvent.op = "get_steps"
    /\ lastEvent.reply.json \in {TwoElementData(4321)}
    /\ lastEvent.response.body = Dict([steps |-> PyInt(4321)])

(***************************************************************************)
(* C8.  As claimed: a failing /get-steps answers with a JSON object        *)
(* {error: string} and status 401 when no token is held, status 500 when   *)
(* Google Fit answered non-2xx, and never with a steps value.              *)
(***************************************************************************)
C8_ErrorStatusCodes ==
    GetStepsFailed
        => /\ lastEvent.response.body.t = "dict"
           /\ DOMAIN lastEvent.response.body.v = {"error"}
           /\ lastEvent.response.body.v["error"].t = "str"
           /\ lastEvent.response.status =
                  IF lastEvent.reply = NoReply THEN 401 ELSE 500

(***************************************************************************)
(* C9.  Last completion wins: the stored token is the token of the         *)
(* accepted exchange that completed last, whatever the order in which the  *)
(* callbacks arrived; the one slot holds nothing or a string, and changes  *)
(* only to the token answered to the callback that completes.              *)
(***************************************************************************)
C9_LastCompletionWins ==
    /\ [](/\ user_access_token.t \in {"None", "str"}
          /\ Accepted(lastCallback.reply)
                => user_access_token = IssuedToken(lastCallback.reply))
    /\ [][user_access_token' # user_access_token
            => /\ lastEvent'.op = "callback"
               /\ Accepted(lastEvent'.reply)
                    => user_access_token' = IssuedToken(lastEvent'.reply)]_vars

\* The callback that arrived first completed last, after a later arrival
\* had stored another token, and its token is the one held.
C9_Witness ==
    /\ lastEvent.op = "callback"
    /\ pendingExchanges = <<>>
    /\ Accepted(lastCallback.reply)
    /\ lastCallback.overtakenBy = Str("ya29.tok2")
    /\ IssuedToken(lastCallback.reply) = Str("abc123")
    /\ user_access_token = Str("abc123")

(***************************************************************************)
(* C10.  A request to Google Fit never carries an absent or empty bearer   *)
(* token: the header is built from the non-empty token the same step       *)
(* checked, and no later step changes a request already sent.              *)
(***************************************************************************)
C10_BearerNeverEmpty ==
    /\ [](/\ \A i \in 1..Len(pendingFetches) :
                pendingFetches[i].headers.Authorization
                    \in { "Bearer " \o tk : tk \in Tokens \ {""} }
          /\ lastEvent.op = "get_steps_await"
                => /\ Held(user_access_token)
                   /\ lastEvent.sent.headers.Authorization =
                          "Bearer " \o user_access_token.v)
    /\ [][/\ lastEvent'.op \in {"callback", "callback_await"}
               => pendingFetches' = pendingFetches
          /\ \A i \in 1..Len(pendingFetches) :
               (Len(pendingFetches') >= Len(pendingFetches))
                   => pendingFetches'[i] = pendingFetches[i]]_vars

\* A callback completed while a fetch was awaited: the request in flight
\* still carries the token its own check saw, not the one now stored.
C10_Witness ==
    /\ lastEvent.op = "callback"
    /\ Len(pendingFetches) = 1
    /\ pendingFetches[1].headers.Authorization = "Bearer abc123"
    /\ user_access_token = Str("ya29.tok2")

=============================================================================
